---- MODULE Spec2Model ----
(***************************************************************************)
(* State-machine model of the HealthConnect backend (src/server.js).       *)
(*                                                                         *)
(* Every route handler is an async function: it runs synchronously up to   *)
(* its next await (or callback-style call), suspends, and resumes when the *)
(* awaited operation completes.  Each action below is one such segment:    *)
(* the completion of the awaited operation together with the code that     *)
(* runs up to the next suspension point.  Segments of different requests   *)
(* interleave freely.                                                      *)
(***************************************************************************)
EXTENDS Integers, Sequences, FiniteSets, TLC

VARIABLES
    conn,           \* progress of connectToMongoDB(): connecting | listing | ready
    process,        \* "running" | "exited"
    req,            \* per request slot: the handler's locals, position and ghost history
    subscriptions,  \* collection 'subscriptions'
    users,          \* collection 'users'
    appointments,   \* collection 'appointments'
    dietPlans,      \* collection 'dietPlans'
    chatHistory     \* collection 'chatHistory'

vars == <<conn, process, req, subscriptions, users, appointments, dietPlans, chatHistory>>

colls == <<subscriptions, users, appointments, dietPlans, chatHistory>>

-----------------------------------------------------------------------------
(* Bounds: how many requests each specification admits.                    *)

MaxReq == 2
MaxSubscribers == 3
MaxAccountReqs == 3
MaxChats == 2
MaxBookings == 3
MaxDiets == 2
MaxForms == 1

Max2(a, b) == IF a >= b THEN a ELSE b

AllSlots ==
    1..Max2(Max2(Max2(MaxReq, MaxSubscribers), Max2(MaxAccountReqs, MaxChats)),
            Max2(Max2(MaxBookings, MaxForms), MaxDiets))

-----------------------------------------------------------------------------
(* Values of request bodies.                                               *)

\* The JavaScript value undefined: a field absent from the JSON body.
Undefined == "<undefined>"

Emails == {"ann@example.com", "bob@example.com"}
\* /send-diet-plan only passes the recipient on, to the document and the mail.
DietRecipients == {"ann@example.com"}
Passwords == {"secret123", "hunter2"}
\* The salt bcrypt generates for a hash.
Salts == {"salt-A"}
GoalsList == "lose fat, run 10k"

Str(chars) == [type |-> "string", chars |-> chars]
NoMessage == [type |-> "undefined", chars |-> <<>>]

-----------------------------------------------------------------------------
(* Strings as character sequences: toLowerCase() and includes().           *)

ToLowerChar(c) ==
    CASE c = "A" -> "a" [] c = "C" -> "c" [] c = "D" -> "d" [] c = "E" -> "e"
      [] c = "F" -> "f" [] c = "H" -> "h" [] c = "I" -> "i" [] c = "N" -> "n"
      [] c = "S" -> "s" [] c = "T" -> "t" [] c = "V" -> "v"
      [] OTHER -> c

toLowerCase(s) == [i \in 1..Len(s) |-> ToLowerChar(s[i])]

\* String.prototype.includes: key occurs as a contiguous substring of s.
includes(s, key) ==
    \E i \in 1..(Len(s) - Len(key) + 1) : \A j \in 1..Len(key) : s[i + j - 1] = key[j]

K_hello == <<"h","e","l","l","o">>
K_hi == <<"h","i">>
K_workout_splits == <<"w","o","r","k","o","u","t"," ","s","p","l","i","t","s">>
K_diet_plans == <<"d","i","e","t"," ","p","l","a","n","s">>
K_fitness_advice == <<"f","i","t","n","e","s","s"," ","a","d","v","i","c","e">>
K_default == <<"d","e","f","a","u","l","t">>

R_hello == "Hello! Welcome to HealthConnect. How can I assist you today?"
R_hi == "Hi there! How can I help you?"
R_workout_splits == "Here are some popular workout splits: ..."
R_diet_plans == "Here are some diet plans based on your goal: ..."
R_fitness_advice == "Here are some general fitness tips: ..."
R_default == "I'm sorry, I didn't understand that. Can you please rephrase or ask something else?"

\* The responses object, in property (insertion) order, which is the order
\* `for (const key in responses)` visits; "default" is one of its keys.
responses ==
    << [key |-> K_hello,           text |-> R_hello],
       [key |-> K_hi,              text |-> R_hi],
       [key |-> K_workout_splits,  text |-> R_workout_splits],
       [key |-> K_diet_plans,      text |-> R_diet_plans],
       [key |-> K_fitness_advice,  text |-> R_fitness_advice],
       [key |-> K_default,         text |-> R_default] >>

Apology == "Sorry, I couldn't fetch the information at the moment. Please try again later."

\* What the completion API may return as response.choices[0].message.content.
CompletionTexts == {"Protein timing matters less than total daily intake."}

\* The for-in loop with break: visit the keys from position i on, stop at the
\* first one the message includes; botResponse keeps responses.default otherwise.
RECURSIVE ScanResponses(_, _)
ScanResponses(userMessage, i) ==
    IF i > Len(responses) THEN R_default
    ELSE IF includes(userMessage, responses[i].key) THEN responses[i].text
    ELSE ScanResponses(userMessage, i + 1)

\* The loop without its break: the last key the message includes wins.
RECURSIVE ScanWithoutBreak(_, _, _)
ScanWithoutBreak(userMessage, i, botResponse) ==
    IF i > Len(responses) THEN botResponse
    ELSE ScanWithoutBreak(userMessage, i + 1,
            IF includes(userMessage, responses[i].key) THEN responses[i].text ELSE botResponse)

MatchResponseLastWins(userMessage) == ScanWithoutBreak(userMessage, 1, R_default)

MatchResponse(userMessage) == ScanResponses(userMessage, 1)

M_hello == <<"h","e","l","l","o">>
M_hi_diet == <<"H","i"," ","t","h","e","r","e",","," ","t","e","l","l"," ","m","e"," ","a","b","o","u","t"," ","d","i","e","t"," ","p","l","a","n","s">>
M_diet_hi == <<"d","i","e","t"," ","p","l","a","n","s","?"," ","h","i">>
M_protein == <<"t","e","l","l"," ","m","e"," ","a","b","o","u","t"," ","p","r","o","t","e","i","n"," ","t","i","m","i","n","g">>
M_which == <<"w","h","i","c","h"," ","w","o","r","k","o","u","t"," ","s","p","l","i","t","s">>
M_workout_fitness == <<"w","o","r","k","o","u","t"," ","s","p","l","i","t","s"," ","a","n","d"," ","f","i","t","n","e","s","s"," ","a","d","v","i","c","e">>
M_upper == <<"F","I","T","N","E","S","S"," ","A","D","V","I","C","E">>
M_default == <<"d","e","f","a","u","l","t">>
M_empty == <<>>
M_hi_hello == <<"o","h"," ","h","i",","," ","h","e","l","l","o">>

\* body.message of the chat requests considered.
Messages ==
    { Str(m) : m \in { M_hello, M_hi_diet, M_diet_hi, M_protein, M_which,
                        M_workout_fitness, M_upper, M_default, M_empty, M_hi_hello } }
      \cup { NoMessage }

-----------------------------------------------------------------------------
(* The diet plan switch of /send-diet-plan.  A fragment is represented by   *)
(* its heading, which is what tells the source's fragments apart.          *)

GoalValues == {"weight_loss", "muscle_gain", "maintain_weight", "keto", Undefined}
DietPreferences == {"vegetarian", "non_vegetarian", Undefined}

P_veg_weight_loss == "<h2>Vegetarian Weight Loss Diet Plan</h2>"
P_nonveg_weight_loss == "<h2>Non-Vegetarian Weight Loss Diet Plan</h2>"
P_veg_muscle_gain == "<h2>Vegetarian Muscle Gain Diet Plan</h2>"
P_nonveg_muscle_gain == "<h2>Non-Vegetarian Muscle Gain Diet Plan</h2>"
P_veg_maintain == "<h2>Vegetarian Maintain Weight Diet Plan</h2>"
P_nonveg_maintain == "<h2>Non-Vegetarian Maintain Weight Diet Plan</h2>"
P_none == "<p>No specific plan selected.</p>"

\* The switch with the break after case 'muscle_gain' missing: control falls
\* through into case 'maintain_weight'.
GenerateDietPlanFallthrough(goal, dietPreference) ==
    CASE goal = "weight_loss" ->
            IF dietPreference = "vegetarian" THEN P_veg_weight_loss ELSE P_nonveg_weight_loss
      [] goal \in {"muscle_gain", "maintain_weight"} ->
            IF dietPreference = "vegetarian" THEN P_veg_maintain ELSE P_nonveg_maintain
      [] OTHER -> P_none

GenerateDietPlan(goal, dietPreference) ==
    CASE goal = "weight_loss" ->
            IF dietPreference = "vegetarian" THEN P_veg_weight_loss ELSE P_nonveg_weight_loss
      [] goal = "muscle_gain" ->
            IF dietPreference = "vegetarian" THEN P_veg_muscle_gain ELSE P_nonveg_muscle_gain
      [] goal = "maintain_weight" ->
            IF dietPreference = "vegetarian" THEN P_veg_maintain ELSE P_nonveg_maintain
      [] OTHER -> P_none

-----------------------------------------------------------------------------
(* bcryptjs: a salted one-way hash.  The stored string carries its salt;    *)
(* compare() re-hashes the candidate with that salt.                        *)

BcryptHash(password, salt) == [salt |-> salt, digest |-> <<salt, password>>]

BcryptCompare(password, hashed) == BcryptHash(password, hashed.salt) = hashed

-----------------------------------------------------------------------------
(* Requests.                                                                *)

NoHash == [salt |-> "none", digest |-> <<>>]

\* A slot no request has arrived in yet.  The body fields a route does not
\* read stay Undefined.  insert, mail and api follow the handler's one
\* insertOne, sendMail and completion call: none | pending | ok | fail.
\* resp is the sequence of HTTP statuses sent, msg the last body's message.
\* trace, pred and snap are history: the handler's events in order, the
\* requests already finished and the documents of the route's collection
\* when the request arrived.
Idle ==
    [ route |-> "none", pc |-> "idle",
      email |-> Undefined, password |-> Undefined, goals |-> Undefined,
      message |-> NoMessage, goal |-> Undefined, dietPreference |-> Undefined,
      userMessage |-> <<>>, botResponse |-> "none", hashedPassword |-> NoHash,
      dietPlan |-> "none",
      insert |-> "none", mail |-> "none", api |-> "none",
      resp |-> <<>>, msg |-> "none",
      trace |-> <<>>, pred |-> {}, snap |-> {} ]

Terminated(q) == q.pc \in {"done", "rejected"}

Finished == { s \in AllSlots : Terminated(req[s]) }

Rids(coll) == { coll[i].rid : i \in DOMAIN coll }

\* The request arrives: express parses the body and calls the handler.
Arrive(route) == [Idle EXCEPT !.route = route]

\* The same, remembering which requests had finished and which documents the
\* route's collection held at that moment.
ArriveSeeing(route, coll) ==
    [Idle EXCEPT !.route = route, !.pred = Finished, !.snap = Rids(coll)]

Event(q, e) == [q EXCEPT !.trace = Append(@, e)]

\* res.status(code).json({... message}) ends every path of every handler.
Respond(q, code, message) ==
    [q EXCEPT !.resp = Append(@, code), !.msg = message, !.pc = "done",
              !.trace = Append(@, "respond")]

\* let db: undefined until connectToMongoDB() assigns it (line 48).
dbAssigned == conn \in {"listing", "ready"}

\* collection.findOne({email}): the first matching document in natural order.
Matching(coll, email) == { i \in DOMAIN coll : coll[i].email = email }

FirstMatch(coll, email) ==
    CHOOSE i \in Matching(coll, email) : \A j \in Matching(coll, email) : i <= j

Count(coll, email) == Cardinality(Matching(coll, email))

\* An error thrown outside every try block rejects the promise the async
\* handler returned.  What follows depends on the installed express and node,
\* which the repository does not pin: express 4 drops the rejection, so the
\* request is never answered ("hang") or, on a node that exits on unhandled
\* rejections, the process dies ("crash"); express 5 passes it to its default
\* error handler, which answers 500 ("framework500").
RejectionOutcomes == {"hang", "crash", "framework500"}

Rejected(q, outcome) ==
    IF outcome = "framework500"
    THEN [q EXCEPT !.pc = "rejected", !.resp = Append(@, 500),
                   !.msg = "Internal Server Error", !.trace = Append(@, "respond")]
    ELSE [q EXCEPT !.pc = "rejected"]

ProcessAfter(outcome) == IF outcome = "crash" THEN "exited" ELSE "running"

-----------------------------------------------------------------------------
(* connectToMongoDB(), started at load time and not awaited: the server    *)
(* accepts requests while it runs.                                         *)

Init ==
    /\ conn = "connecting"
    /\ process = "running"
    /\ req = [r \in AllSlots |-> Idle]
    /\ subscriptions = <<>>
    /\ users = <<>>
    /\ appointments = <<>>
    /\ dietPlans = <<>>
    /\ chatHistory = <<>>

\* await client.connect() returns or throws; on success db is assigned and
\* listCollections() is awaited; the catch exits the process.
ClientConnect ==
    /\ process = "running"
    /\ conn = "connecting"
    /\ \E ok \in BOOLEAN :
         /\ conn' = IF ok THEN "listing" ELSE conn
         /\ process' = IF ok THEN "running" ELSE "exited"
    /\ UNCHANGED <<req, colls>>

ListCollections ==
    /\ process = "running"
    /\ conn = "listing"
    /\ \E ok \in BOOLEAN :
         /\ conn' = IF ok THEN "ready" ELSE conn
         /\ process' = IF ok THEN "running" ELSE "exited"
    /\ UNCHANGED <<req, colls>>

connectToMongoDB == ClientConnect \/ ListCollections

-----------------------------------------------------------------------------
(* POST /api/subscribe                                                      *)

M_already == "Email already subscribed."
M_thanks == "Thank you for subscribing!"
M_wrong == "Something went wrong. Please try again."

\* The lookup made on the wrong collection.
ExistingSubscriptionInUsers(email) == Matching(users, email) # {}

\* Lines 136-137: existingSubscription is truthy when findOne found a document.
ExistingSubscription(email) == Matching(subscriptions, email) # {}

\* Lines 132-136: destructure the body, enter the try, call findOne.  With db
\* still undefined db.collection throws a TypeError, which the catch answers.
SubscribeReceive(r) ==
    /\ process = "running"
    /\ req[r].pc = "idle"
    /\ \E email \in Emails :
         LET q == [ArriveSeeing("subscribe", subscriptions) EXCEPT !.email = email] IN
         req' = [req EXCEPT ![r] =
                    IF dbAssigned
                    THEN [Event(q, "findOne") EXCEPT !.pc = "find"]
                    ELSE Respond(q, 500, M_wrong)]
    /\ UNCHANGED <<conn, process, colls>>

\* Lines 136-143: findOne resolves or rejects; a document found answers 400,
\* otherwise insertOne is called.
SubscribeFound(r) ==
    /\ process = "running"
    /\ req[r].route = "subscribe"
    /\ req[r].pc = "find"
    /\ \E ok \in BOOLEAN :
         req' = [req EXCEPT ![r] =
                    IF ~ok THEN Respond(@, 500, M_wrong)
                    ELSE IF ExistingSubscription(@.email)
                         THEN Respond(@, 400, M_already)
                         ELSE [Event(@, "insertOne") EXCEPT !.pc = "insert", !.insert = "pending"]]
    /\ UNCHANGED <<conn, process, colls>>

\* Lines 143-150: insertOne resolves (the document is stored) and 201 is
\* sent, or rejects and the catch answers 500.
SubscribeInserted(r) ==
    /\ process = "running"
    /\ req[r].route = "subscribe"
    /\ req[r].pc = "insert"
    /\ \E ok \in BOOLEAN :
         /\ subscriptions' =
                IF ok THEN Append(subscriptions, [rid |-> r, email |-> req[r].email])
                ELSE subscriptions
         /\ req' = [req EXCEPT ![r] =
                      IF ok THEN Respond([@ EXCEPT !.insert = "ok"], 201, M_thanks)
                      ELSE Respond([@ EXCEPT !.insert = "fail"], 500, M_wrong)]
    /\ UNCHANGED <<conn, process, users, appointments, dietPlans, chatHistory>>

-----------------------------------------------------------------------------
(* POST /chat                                                               *)

\* The insert without its try: with db undefined the TypeError escapes the
\* handler.
SaveConversationUncaught(q) ==
    IF dbAssigned
    THEN [Event(q, "insertOne") EXCEPT !.pc = "log", !.insert = "pending"]
    ELSE Rejected([Event(q, "insertOne") EXCEPT !.insert = "fail"], "hang")

\* Lines 118-125: the try around the chatHistory insert.  With db undefined
\* db.collection throws inside the try; the catch logs it and the response
\* is sent at once.  Otherwise insertOne is awaited.
SaveConversation(q) ==
    IF dbAssigned
    THEN [Event(q, "insertOne") EXCEPT !.pc = "log", !.insert = "pending"]
    ELSE Respond([Event(q, "insertOne") EXCEPT !.insert = "fail"], 200, q.botResponse)

\* Lines 94-111: req.body.message.toLowerCase() throws a TypeError outside
\* any try when message is not a string.  Otherwise scan the table; when
\* botResponse is still responses.default call the completion API.
ChatReceive(r) ==
    /\ process = "running"
    /\ req[r].pc = "idle"
    /\ \E message \in Messages, outcome \in RejectionOutcomes :
         LET q == [Arrive("chat") EXCEPT !.message = message]
             userMessage == toLowerCase(message.chars)
             botResponse == MatchResponse(userMessage)
             m == [q EXCEPT !.userMessage = userMessage, !.botResponse = botResponse]
         IN  IF message.type # "string"
             THEN /\ req' = [req EXCEPT ![r] = Rejected(q, outcome)]
                  /\ process' = ProcessAfter(outcome)
             ELSE /\ req' = [req EXCEPT ![r] =
                               IF botResponse = R_default
                               THEN [Event(m, "completion") EXCEPT !.pc = "completion", !.api = "pending"]
                               ELSE SaveConversation(m)]
                  /\ process' = process
    /\ UNCHANGED <<conn, colls>>

\* Lines 75-116: fetchChatGPTResponse resolves with the text or rethrows; the
\* handler's catch substitutes the apology.  Then the conversation is saved.
ChatCompleted(r) ==
    /\ process = "running"
    /\ req[r].route = "chat"
    /\ req[r].pc = "completion"
    /\ \E ok \in BOOLEAN, text \in CompletionTexts :
         req' = [req EXCEPT ![r] =
                    SaveConversation([@ EXCEPT !.botResponse = IF ok THEN text ELSE Apology,
                                               !.api = IF ok THEN "ok" ELSE "fail"])]
    /\ UNCHANGED <<conn, process, colls>>

\* The conversation object built before the completion fallback: it logs
\* what the table scan gave.
ChatLoggedStale(r) ==
    /\ process = "running"
    /\ req[r].route = "chat"
    /\ req[r].pc = "log"
    /\ \E ok \in BOOLEAN :
         /\ chatHistory' =
                IF ok THEN Append(chatHistory, [rid |-> r, userMessage |-> req[r].userMessage,
                                                botResponse |-> MatchResponse(req[r].userMessage)])
                ELSE chatHistory
         /\ req' = [req EXCEPT ![r] =
                      Respond([@ EXCEPT !.insert = IF ok THEN "ok" ELSE "fail"], 200, @.botResponse)]
    /\ UNCHANGED <<conn, process, subscriptions, users, appointments, dietPlans>>

\* Lines 121-127: insertOne resolves or rejects (logged only); res.json.
ChatLogged(r) ==
    /\ process = "running"
    /\ req[r].route = "chat"
    /\ req[r].pc = "log"
    /\ \E ok \in BOOLEAN :
         /\ chatHistory' =
                IF ok THEN Append(chatHistory, [rid |-> r, userMessage |-> req[r].userMessage,
                                                botResponse |-> req[r].botResponse])
                ELSE chatHistory
         /\ req' = [req EXCEPT ![r] =
                      Respond([@ EXCEPT !.insert = IF ok THEN "ok" ELSE "fail"], 200, @.botResponse)]
    /\ UNCHANGED <<conn, process, subscriptions, users, appointments, dietPlans>>

-----------------------------------------------------------------------------
(* POST /send-diet-plan                                                     *)

M_diet_save == "Failed to save diet plan"
M_diet_mail == "Failed to send email"
M_diet_sent == "Diet plan sent to your email!"

\* Lines 155-256: generate the plan, enter the try and call insertOne (db
\* undefined: TypeError, caught, 500).
DietReceive(r) ==
    /\ process = "running"
    /\ req[r].pc = "idle"
    /\ \E email \in DietRecipients, goal \in GoalValues, dietPreference \in DietPreferences :
         LET q == [Arrive("diet") EXCEPT !.email = email, !.goal = goal,
                                         !.dietPreference = dietPreference,
                                         !.dietPlan = GenerateDietPlan(goal, dietPreference)] IN
         req' = [req EXCEPT ![r] =
                    IF dbAssigned
                    THEN [Event(q, "insertOne") EXCEPT !.pc = "insert", !.insert = "pending"]
                    ELSE Respond([Event(q, "insertOne") EXCEPT !.insert = "fail"], 500, M_diet_save)]
    /\ UNCHANGED <<conn, process, colls>>

\* Lines 251-283: insertOne rejects: 500 and return.  It resolves: the
\* document is stored and sendMail is called with a callback.
DietInserted(r) ==
    /\ process = "running"
    /\ req[r].route = "diet"
    /\ req[r].pc = "insert"
    /\ \E ok \in BOOLEAN :
         /\ dietPlans' =
                IF ok THEN Append(dietPlans, [rid |-> r, email |-> req[r].email, goal |-> req[r].goal,
                                              dietPreference |-> req[r].dietPreference,
                                              dietPlan |-> req[r].dietPlan])
                ELSE dietPlans
         /\ req' = [req EXCEPT ![r] =
                      IF ok THEN [Event([@ EXCEPT !.insert = "ok"], "sendMail")
                                     EXCEPT !.pc = "mail", !.mail = "pending"]
                      ELSE Respond([@ EXCEPT !.insert = "fail"], 500, M_diet_save)]
    /\ UNCHANGED <<conn, process, subscriptions, users, appointments, chatHistory>>

\* Lines 276-283: the sendMail callback.
DietMailed(r) ==
    /\ process = "running"
    /\ req[r].route = "diet"
    /\ req[r].pc = "mail"
    /\ \E ok \in BOOLEAN :
         req' = [req EXCEPT ![r] =
                    IF ok THEN Respond([@ EXCEPT !.mail = "ok"], 200, M_diet_sent)
                    ELSE Respond([@ EXCEPT !.mail = "fail"], 500, M_diet_mail)]
    /\ UNCHANGED <<conn, process, colls>>

-----------------------------------------------------------------------------
(* POST /book-appointment                                                   *)

M_book_save == "Failed to save appointment"
M_book_mail == "Failed to book appointment"
M_book_ok == "Appointment booked successfully!"

\* Lines 288-301.
BookReceive(r) ==
    /\ process = "running"
    /\ req[r].pc = "idle"
    /\ \E email \in Emails :
         LET q == [Arrive("book") EXCEPT !.email = email] IN
         req' = [req EXCEPT ![r] =
                    IF dbAssigned
                    THEN [Event(q, "insertOne") EXCEPT !.pc = "insert", !.insert = "pending"]
                    ELSE Respond([Event(q, "insertOne") EXCEPT !.insert = "fail"], 500, M_book_save)]
    /\ UNCHANGED <<conn, process, colls>>

\* Lines 296-326: insertOne rejects: 500 and return.  It resolves: the
\* appointment is stored and sendMail is called with a callback.
BookInserted(r) ==
    /\ process = "running"
    /\ req[r].route = "book"
    /\ req[r].pc = "insert"
    /\ \E ok \in BOOLEAN :
         /\ appointments' =
                IF ok THEN Append(appointments, [rid |-> r, email |-> req[r].email])
                ELSE appointments
         /\ req' = [req EXCEPT ![r] =
                      IF ok THEN [Event([@ EXCEPT !.insert = "ok"], "sendMail")
                                     EXCEPT !.pc = "mail", !.mail = "pending"]
                      ELSE Respond([@ EXCEPT !.insert = "fail"], 500, M_book_save)]
    /\ UNCHANGED <<conn, process, subscriptions, users, dietPlans, chatHistory>>

\* The callback undoing the booking when the mail failed.
BookMailedRollback(r) ==
    /\ process = "running"
    /\ req[r].route = "book"
    /\ req[r].pc = "mail"
    /\ \E ok \in BOOLEAN :
         /\ req' = [req EXCEPT ![r] =
                      IF ok THEN Respond([@ EXCEPT !.mail = "ok"], 200, M_book_ok)
                      ELSE Respond([@ EXCEPT !.mail = "fail"], 500, M_book_mail)]
         /\ appointments' =
                IF ok THEN appointments
                ELSE SelectSeq(appointments, LAMBDA d : d.rid # r)
    /\ UNCHANGED <<conn, process, subscriptions, users, dietPlans, chatHistory>>

\* Lines 319-326: the sendMail callback; the stored appointment is not touched.
BookMailed(r) ==
    /\ process = "running"
    /\ req[r].route = "book"
    /\ req[r].pc = "mail"
    /\ \E ok \in BOOLEAN :
         /\ req' = [req EXCEPT ![r] =
                      IF ok THEN Respond([@ EXCEPT !.mail = "ok"], 200, M_book_ok)
                      ELSE Respond([@ EXCEPT !.mail = "fail"], 500, M_book_mail)]
         /\ appointments' = appointments
    /\ UNCHANGED <<conn, process, subscriptions, users, dietPlans, chatHistory>>

-----------------------------------------------------------------------------
(* POST /get-started                                                        *)

M_signup_fail == "Failed to sign up"
M_signup_mail == "Failed to send welcome email"
M_signup_ok == "Thank you for signing up!"

\* Lines 331-337: destructure the body and await bcrypt.hash(password, 10).
GetStartedReceive(r) ==
    /\ process = "running"
    /\ req[r].pc = "idle"
    /\ \E email \in Emails, password \in Passwords \cup {Undefined}, goals \in {GoalsList, Undefined} :
         req' = [req EXCEPT ![r] =
                    [Event(Arrive("getstarted"), "hash")
                        EXCEPT !.email = email, !.password = password, !.goals = goals,
                               !.pc = "hash"]]
    /\ UNCHANGED <<conn, process, colls>>

\* Lines 337-343: bcrypt.hash rejects a password that is not a string, and
\* the await is outside the try.  Otherwise the hash is taken with a fresh
\* salt, the try is entered and insertOne is called (db undefined: TypeError,
\* caught, 500).
GetStartedHashed(r) ==
    /\ process = "running"
    /\ req[r].route = "getstarted"
    /\ req[r].pc = "hash"
    /\ \E salt \in Salts, outcome \in RejectionOutcomes :
         LET q == [req[r] EXCEPT !.hashedPassword = BcryptHash(req[r].password, salt)] IN
         IF req[r].password = Undefined
         THEN /\ req' = [req EXCEPT ![r] = Rejected(@, outcome)]
              /\ process' = ProcessAfter(outcome)
         ELSE /\ req' = [req EXCEPT ![r] =
                           IF dbAssigned
                           THEN [Event(q, "insertOne") EXCEPT !.pc = "insert", !.insert = "pending"]
                           ELSE Respond([Event(q, "insertOne") EXCEPT !.insert = "fail"],
                                        500, M_signup_fail)]
              /\ process' = process
    /\ UNCHANGED <<conn, colls>>

\* The insert not awaited inside the try: its rejection is not seen and the
\* welcome mail goes out all the same.
GetStartedInsertedMailAnyway(r) ==
    /\ process = "running"
    /\ req[r].route = "getstarted"
    /\ req[r].pc = "insert"
    /\ \E ok \in BOOLEAN :
         /\ users' =
                IF ok THEN Append(users, [rid |-> r, email |-> req[r].email,
                                          password |-> req[r].hashedPassword])
                ELSE users
         /\ req' = [req EXCEPT ![r] =
                      IF @.goals = Undefined
                      THEN Respond([@ EXCEPT !.insert = IF ok THEN "ok" ELSE "fail"],
                                   500, M_signup_fail)
                      ELSE [Event([@ EXCEPT !.insert = IF ok THEN "ok" ELSE "fail"], "sendMail")
                               EXCEPT !.pc = "mail", !.mail = "pending"]]
    /\ UNCHANGED <<conn, process, subscriptions, appointments, dietPlans, chatHistory>>

\* Lines 343-372: insertOne rejects: the catch answers 500.  It resolves: the
\* user is stored; building the mail calls goals.join, a TypeError when goals
\* is absent, which the same catch answers; otherwise sendMail is called.
GetStartedInserted(r) ==
    /\ process = "running"
    /\ req[r].route = "getstarted"
    /\ req[r].pc = "insert"
    /\ \E ok \in BOOLEAN :
         /\ users' =
                IF ok THEN Append(users, [rid |-> r, email |-> req[r].email,
                                          password |-> req[r].hashedPassword])
                ELSE users
         /\ req' = [req EXCEPT ![r] =
                      IF ~ok THEN Respond([@ EXCEPT !.insert = "fail"], 500, M_signup_fail)
                      ELSE IF @.goals = Undefined
                           THEN Respond([@ EXCEPT !.insert = "ok"], 500, M_signup_fail)
                           ELSE [Event([@ EXCEPT !.insert = "ok"], "sendMail")
                                    EXCEPT !.pc = "mail", !.mail = "pending"]]
    /\ UNCHANGED <<conn, process, subscriptions, appointments, dietPlans, chatHistory>>

\* Lines 361-368: the sendMail callback.
GetStartedMailed(r) ==
    /\ process = "running"
    /\ req[r].route = "getstarted"
    /\ req[r].pc = "mail"
    /\ \E ok \in BOOLEAN :
         req' = [req EXCEPT ![r] =
                    IF ok THEN Respond([@ EXCEPT !.mail = "ok"], 200, M_signup_ok)
                    ELSE Respond([@ EXCEPT !.mail = "fail"], 500, M_signup_mail)]
    /\ UNCHANGED <<conn, process, colls>>

-----------------------------------------------------------------------------
(* POST /signin                                                             *)

M_signin_ok == "Sign-in successful!"
M_signin_bad == "Invalid email or password"
M_signin_none == "User not found"
M_signin_fail == "Failed to sign in"

\* Lines 377-383.
SigninReceive(r) ==
    /\ process = "running"
    /\ req[r].pc = "idle"
    /\ \E email \in Emails, password \in Passwords \cup {Undefined} :
         LET q == [Arrive("signin") EXCEPT !.email = email, !.password = password,
                                           !.snap = Rids(users)] IN
         req' = [req EXCEPT ![r] =
                    IF dbAssigned
                    THEN [Event(q, "findOne") EXCEPT !.pc = "find"]
                    ELSE Respond(q, 500, M_signin_fail)]
    /\ UNCHANGED <<conn, process, colls>>

\* Lines 383-399: findOne rejects: 500.  No user: 404.  Otherwise await
\* bcrypt.compare(password, user.password).
SigninFound(r) ==
    /\ process = "running"
    /\ req[r].route = "signin"
    /\ req[r].pc = "find"
    /\ \E ok \in BOOLEAN :
         req' = [req EXCEPT ![r] =
                    IF ~ok THEN Respond(@, 500, M_signin_fail)
                    ELSE IF Matching(users, @.email) = {}
                         THEN Respond(@, 404, M_signin_none)
                         ELSE [Event(@, "compare")
                                  EXCEPT !.pc = "compare",
                                         !.hashedPassword =
                                            users[FirstMatch(users, req[r].email)].password]]
    /\ UNCHANGED <<conn, process, colls>>

\* Lines 387-403: bcrypt.compare rejects a password that is not a string
\* (inside the try: 500); otherwise 200 or 401.
SigninCompared(r) ==
    /\ process = "running"
    /\ req[r].route = "signin"
    /\ req[r].pc = "compare"
    /\ req' = [req EXCEPT ![r] =
                 IF @.password = Undefined THEN Respond(@, 500, M_signin_fail)
                 ELSE IF BcryptCompare(@.password, @.hashedPassword)
                      THEN Respond(@, 200, M_signin_ok)
                      ELSE Respond(@, 401, M_signin_bad)]
    /\ UNCHANGED <<conn, process, colls>>

-----------------------------------------------------------------------------
(* Specifications.  Spec is the whole server; the others admit the requests *)
(* of one group of routes, with more of them in flight.                     *)

Subscribe(r) == SubscribeReceive(r) \/ SubscribeFound(r) \/ SubscribeInserted(r)

NextSubscribe == connectToMongoDB \/ \E r \in 1..MaxSubscribers : Subscribe(r)

Chat(r) == ChatReceive(r) \/ ChatCompleted(r) \/ ChatLogged(r)

Diet(r) == DietReceive(r) \/ DietInserted(r) \/ DietMailed(r)

Book(r) == BookReceive(r) \/ BookInserted(r) \/ BookMailed(r)

GetStarted(r) ==
    GetStartedReceive(r) \/ GetStartedHashed(r) \/ GetStartedInserted(r) \/ GetStartedMailed(r)

Signin(r) == SigninReceive(r) \/ SigninFound(r) \/ SigninCompared(r)

Next ==
    \/ connectToMongoDB
    \/ \E r \in 1..MaxReq :
         Chat(r) \/ Subscribe(r) \/ Diet(r) \/ Book(r) \/ GetStarted(r) \/ Signin(r)

Spec == Init /\ [][Next]_vars

SpecSubscribe == Init /\ [][NextSubscribe]_vars

NextChat == connectToMongoDB \/ \E r \in 1..MaxChats : Chat(r)

SpecChat == Init /\ [][NextChat]_vars

NextBooking == connectToMongoDB \/ \E r \in 1..MaxBookings : Book(r)

SpecBooking == Init /\ [][NextBooking]_vars

NextForms == connectToMongoDB \/ \E r \in 1..MaxForms : Diet(r) \/ Book(r) \/ GetStarted(r)

SpecForms == Init /\ [][NextForms]_vars

NextDiet == connectToMongoDB \/ \E r \in 1..MaxDiets : Diet(r)

SpecDiet == Init /\ [][NextDiet]_vars

NextAccounts == connectToMongoDB \/ \E r \in 1..MaxAccountReqs : GetStarted(r) \/ Signin(r)

SpecAccounts == Init /\ [][NextAccounts]_vars

-----------------------------------------------------------------------------
(* Properties.                                                              *)

Occurrences(trace, e) == Cardinality({ i \in DOMAIN trace : trace[i] = e })

Position(trace, e) == CHOOSE i \in DOMAIN trace : trace[i] = e

StoredBy(coll, r) == Cardinality({ i \in DOMAIN coll : coll[i].rid = r })

\* No storage failure showed in the request's response.
StorageAvailable(r) == req[r].resp # <<500>>

\* r1 and r2 subscribe the same email, r2 arriving after r1 was answered;
\* the email was not in the collection when r1 arrived, and every other
\* subscription of it finished before r1 arrived or arrived after r2 finished.
OneAfterTheOther(r1, r2) ==
    /\ r1 # r2
    /\ req[r1].route = "subscribe" /\ req[r2].route = "subscribe"
    /\ req[r1].email = req[r2].email
    /\ r1 \in req[r2].pred
    /\ req[r2].pc = "done"
    /\ \A s \in req[r1].snap : req[s].email # req[r1].email
    /\ \A s \in AllSlots \ {r1, r2} :
         (req[s].route = "subscribe" /\ req[s].email = req[r1].email)
            => (s \in req[r1].pred \/ r2 \in req[s].pred)
    /\ StorageAvailable(r1) /\ StorageAvailable(r2)

\* C1: two subscriptions of an email not yet in the collection, handled one
\* after the other with storage available: the first is answered 201, the
\* second 400 'Email already subscribed.', and the collection holds exactly
\* one document for the email.
C1_SubscribeTwice ==
    \A r1 \in AllSlots, r2 \in AllSlots :
        OneAfterTheOther(r1, r2) =>
            /\ req[r1].resp = <<201>>
            /\ req[r2].resp = <<400>> /\ req[r2].msg = M_already
            /\ Count(subscriptions, req[r1].email) = 1

C1_Witness ==
    \E r1 \in AllSlots, r2 \in AllSlots :
        /\ OneAfterTheOther(r1, r2)
        /\ req[r1].resp = <<201>> /\ req[r2].resp = <<400>>
        /\ StoredBy(subscriptions, r1) = 1

\* C2: whatever the interleaving of the subscribe handlers, the collection
\* holds at most one document per email.
C2_UniqueSubscriptionEmails ==
    \A e \in Emails : Count(subscriptions, e) <= 1

\* C3: a finished sign-in with email e and a string password, storage
\* available: if a user with e and that password was persisted before it
\* arrived it is answered 200; if a user with e and another password was, it
\* is answered 401; if no user document with e exists it is answered 404.
C3_SignInRoundTrip ==
    \A s \in AllSlots :
        (/\ req[s].route = "signin" /\ req[s].pc = "done"
         /\ req[s].password # Undefined
         /\ StorageAvailable(s))
        => LET registered == { u \in req[s].snap : req[u].email = req[s].email } IN
           /\ (\E u \in registered : req[u].password = req[s].password)
                 => req[s].resp = <<200>>
           /\ (\E u \in registered : req[u].password # req[s].password)
                 => req[s].resp = <<401>>
           /\ (Matching(users, req[s].email) = {}) => req[s].resp = <<404>>

\* The keyword table as the specification orders it.
KeywordTable ==
    << <<K_hello, R_hello>>, <<K_hi, R_hi>>, <<K_workout_splits, R_workout_splits>>,
       <<K_diet_plans, R_diet_plans>>, <<K_fitness_advice, R_fitness_advice>> >>

Hits(r) ==
    LET lowered == toLowerCase(req[r].message.chars) IN
    { i \in DOMAIN KeywordTable : includes(lowered, KeywordTable[i][1]) }

Earliest(S) == CHOOSE i \in S : \A j \in S : i <= j

ChatWithString(r) == req[r].route = "chat" /\ req[r].message.type = "string"

\* C4: a chat request with a string message that has ended was answered
\* exactly once, with status 200 and the bot response as message, whatever
\* the completion call and the chatHistory insert did; with no keyword in
\* the message and the completion call failed, the message is the apology.
C4_ChatNeverFails ==
    \A r \in AllSlots :
        (ChatWithString(r) /\ Terminated(req[r])) =>
            /\ req[r].resp = <<200>>
            /\ req[r].msg = req[r].botResponse
            /\ req[r].msg # "none"
            /\ (Hits(r) = {} /\ req[r].api = "fail") => req[r].msg = Apology

C4_Witness ==
    \E r \in AllSlots :
        /\ ChatWithString(r) /\ req[r].pc = "done"
        /\ Hits(r) = {} /\ req[r].api = "fail" /\ req[r].insert = "fail"
        /\ conn = "connecting"
        /\ req[r].resp = <<200>> /\ req[r].msg = Apology

\* C5: a booking whose insert succeeded has exactly one document in
\* appointments from then on, also after its mail failed; a booking whose
\* insert did not succeed has none; a failed mail is answered 500.
C5_AppointmentPersistedOnce ==
    \A r \in AllSlots :
        req[r].route = "book" =>
            /\ StoredBy(appointments, r) = (IF req[r].insert = "ok" THEN 1 ELSE 0)
            /\ req[r].mail = "fail" => (req[r].insert = "ok" /\ req[r].resp = <<500>>)

C5_Witness ==
    \E r \in AllSlots :
        /\ req[r].route = "book" /\ req[r].pc = "done"
        /\ req[r].mail = "fail" /\ req[r].resp = <<500>>
        /\ StoredBy(appointments, r) = 1

Collection(route) ==
    CASE route = "diet" -> dietPlans
      [] route = "book" -> appointments
      [] route = "getstarted" -> users

\* C6: for /send-diet-plan, /book-appointment and /get-started, sendMail is
\* called only after the request's insertOne succeeded and its document is
\* stored; a failed insert is answered 500 with no mail ever sent; 200 is
\* answered only when the insert and the mail both succeeded.
C6_PersistBeforeNotify ==
    \A r \in AllSlots :
        req[r].route \in {"diet", "book", "getstarted"} =>
            /\ (req[r].mail # "none" \/ Occurrences(req[r].trace, "sendMail") > 0)
                 => /\ req[r].insert = "ok"
                    /\ StoredBy(Collection(req[r].route), r) = 1
                    /\ Position(req[r].trace, "insertOne") < Position(req[r].trace, "sendMail")
            /\ req[r].insert = "fail"
                 => /\ req[r].resp = <<500>>
                    /\ req[r].mail = "none"
                    /\ Occurrences(req[r].trace, "sendMail") = 0
            /\ (\E i \in DOMAIN req[r].resp : req[r].resp[i] = 200)
                 => (req[r].insert = "ok" /\ req[r].mail = "ok")

C6_Witness ==
    \E r \in AllSlots :
        /\ req[r].route = "getstarted" /\ req[r].pc = "done"
        /\ req[r].insert = "ok" /\ req[r].mail = "ok"
        /\ req[r].resp = <<200>>

\* C7: with a keyword in the lowercased message, the bot response is the
\* canned string of the earliest such keyword in table order and the
\* completion API is not called; with none, the completion API is called.
C7_FirstMatchWins ==
    \A r \in AllSlots :
        ChatWithString(r) =>
            LET hits == Hits(r) IN
            IF hits # {}
            THEN /\ req[r].botResponse = KeywordTable[Earliest(hits)][2]
                 /\ req[r].api = "none"
                 /\ Occurrences(req[r].trace, "completion") = 0
                 /\ req[r].pc = "done" => req[r].msg = KeywordTable[Earliest(hits)][2]
            ELSE /\ req[r].api # "none"
                 /\ Occurrences(req[r].trace, "completion") = 1

\* 'diet plans? hi': both keywords, the later one in the table first in the text.
C7_Witness ==
    \E r \in AllSlots :
        /\ ChatWithString(r) /\ req[r].pc = "done"
        /\ req[r].message.chars = M_diet_hi
        /\ req[r].msg = R_hi /\ req[r].api = "none"

RecognizedGoals == {"weight_loss", "muscle_gain", "maintain_weight"}

\* The combination a request falls in: its goal and whether it is vegetarian.
Combination(goal, dietPreference) == <<goal, dietPreference = "vegetarian">>

\* C8: the generated fragment is never empty; two requests with recognized
\* goals get the same fragment exactly when they are the same combination of
\* goal and vegetarian-or-not; every other goal, a missing one too, gets the
\* default fragment; the stored document holds the request's fragment.
C8_DietPlanMapping ==
    /\ \A r \in AllSlots :
          req[r].route = "diet" =>
             /\ req[r].dietPlan \notin {"", "none"}
             /\ req[r].goal \notin RecognizedGoals <=> req[r].dietPlan = P_none
    /\ \A r1 \in AllSlots, r2 \in AllSlots :
          (/\ req[r1].route = "diet" /\ req[r2].route = "diet"
           /\ req[r1].goal \in RecognizedGoals /\ req[r2].goal \in RecognizedGoals)
          => ( (req[r1].dietPlan = req[r2].dietPlan)
                 <=> (Combination(req[r1].goal, req[r1].dietPreference)
                        = Combination(req[r2].goal, req[r2].dietPreference)) )
    /\ \A i \in DOMAIN dietPlans :
          /\ dietPlans[i].dietPlan = req[dietPlans[i].rid].dietPlan
          /\ dietPlans[i].goal = req[dietPlans[i].rid].goal
          /\ dietPlans[i].dietPreference = req[dietPlans[i].rid].dietPreference

C8_Witness ==
    \E i \in DOMAIN dietPlans, j \in DOMAIN dietPlans :
        /\ dietPlans[i].goal = "muscle_gain" /\ dietPlans[i].dietPreference = "vegetarian"
        /\ dietPlans[j].goal = "maintain_weight" /\ dietPlans[j].dietPreference = Undefined
        /\ dietPlans[i].dietPlan # dietPlans[j].dietPlan
        /\ dietPlans[i].dietPlan # P_none /\ dietPlans[j].dietPlan # P_none

\* C9: while the process runs, a request whose handler has ended was
\* answered exactly once, and no request is ever answered twice.
C9_ExactlyOneResponse ==
    process = "running" =>
        \A r \in AllSlots :
            /\ Len(req[r].resp) <= 1
            /\ Terminated(req[r]) => Len(req[r].resp) = 1

\* What the handler computed as bot response, from the table and the
\* completion call alone.
ComputedResponse(r) ==
    LET hits == Hits(r) IN
    IF hits # {} THEN {KeywordTable[Earliest(hits)][2]}
    ELSE IF req[r].api = "ok" THEN CompletionTexts
    ELSE IF req[r].api = "fail" THEN {Apology}
    ELSE {}

\* C10: a chat turn attempts its chatHistory insert once, not before the
\* completion call has returned and not after the response; the response is
\* not sent while the insert is pending; the logged botResponse is the
\* message returned; and the message returned is the computed one whether
\* the insert succeeded or failed.
C10_ChatLoggedOnce ==
    \A r \in AllSlots :
        ChatWithString(r) =>
            LET computed == ComputedResponse(r) IN
            /\ req[r].api = "pending" => (req[r].insert = "none" /\ req[r].resp = <<>>)
            /\ req[r].insert = "pending" => req[r].resp = <<>>
            /\ req[r].insert # "none" => req[r].botResponse \in computed
            /\ StoredBy(chatHistory, r) = (IF req[r].insert = "ok" THEN 1 ELSE 0)
            /\ \A i \in DOMAIN chatHistory :
                  chatHistory[i].rid = r => chatHistory[i].botResponse = req[r].botResponse
            /\ req[r].pc = "done" =>
                  /\ Occurrences(req[r].trace, "insertOne") = 1
                  /\ req[r].insert \in {"ok", "fail"}
                  /\ Position(req[r].trace, "insertOne") < Position(req[r].trace, "respond")
                  /\ req[r].msg \in computed
                  /\ req[r].msg = req[r].botResponse

C10_Witness ==
    \E r \in AllSlots :
        /\ ChatWithString(r) /\ req[r].pc = "done"
        /\ req[r].api = "ok" /\ req[r].insert = "fail" /\ conn # "connecting"
        /\ req[r].msg \in CompletionTexts

====
